---- MODULE Spec2Model ----
(***************************************************************************)
(* Virtio MMIO transport (devices/src/virtio/mmio.rs): the register file,  *)
(* the negotiation state machine and the activation latch of MmioDevice,   *)
(* with the backend (VirtioDevice) modelled as a recorder of the calls it  *)
(* receives.                                                               *)
(*                                                                         *)
(* Representation notes.                                                   *)
(*  - A u32 is a natural below 2^31 (TLC's integers are 32-bit signed);    *)
(*    every input value is chosen below that limit, so the casts           *)
(*    `v as usize` and `load(..) as u32` change no value that occurs.      *)
(*  - A GuestAddress (u64) is the record [hi, lo] of its two 32-bit halves.*)
(*  - Option<T> is a sequence: None is << >>, Some(x) is << x >>.          *)
(*  - Arc<AtomicUsize> is a handle (an index) into the heap `atomics`.     *)
(*  - An EventFd is the identity of its kernel counter (a number).         *)
(***************************************************************************)
EXTENDS Naturals, Integers, Sequences, FiniteSets, TLC

VARIABLES
    device,                 \* Box<VirtioDevice>: the backend and the calls it has seen
    device_activated,
    features_select,
    acked_features_select,
    queue_select,
    interrupt_status,       \* Arc<AtomicUsize>: handle into atomics
    interrupt_evt,          \* Option<EventFd>
    driver_status,
    config_generation,
    queues,                 \* Vec<Queue>
    queue_evts,             \* Vec<EventFd>
    mem,                    \* Option<GuestMemory>
    atomics,                \* heap of AtomicUsize words, indexed by handle
    rdata,                  \* the caller's buffer of the latest BusDevice::read
    counters,               \* kernel eventfd counters, indexed by eventfd identity
    handles,                \* the EventFd / ScopedEvent objects made through eventfd.rs
    pending,                \* per endpoint: sum of the values written since its last read
    evt_ret                 \* Option<u64>: what the latest EventFd::read returned

vars == <<device, device_activated, features_select, acked_features_select,
          queue_select, interrupt_status, interrupt_evt, driver_status,
          config_generation, queues, queue_evts, mem, atomics, rdata,
          counters, handles, pending, evt_ret>>

\* the objects of eventfd.rs that the transport does not hold
evt_vars == <<handles, pending, evt_ret>>

----------------------------------------------------------------------------
(* Bounds of the model *)

\* number of EventFd / ScopedEvent objects made through eventfd.rs
MaxHandles == 2

\* largest value an eventfd counter holds; a write that would pass it blocks
\* (the kernel's limit is 2^64 - 2)
MaxCount == 3

\* size in bytes of the guest memory region handed to MmioDevice::new
GuestMemSize == 65536

\* the model stops issuing bus writes once the backend has seen this many
\* activate calls (the code never reaches it; a faulty latch would)
MaxActivateCalls == 2

\* the model stops issuing bus calls once the backend has seen this many
\* read_config / write_config calls
MaxConfigCalls == 2

----------------------------------------------------------------------------
(* Program constants *)

VENDOR_ID == 0
MMIO_MAGIC_VALUE == 1953654134          \* 0x74726976
MMIO_VERSION == 2

DEVICE_ACKNOWLEDGE == 1
DEVICE_DRIVER == 2
DEVICE_DRIVER_OK == 4
DEVICE_FEATURES_OK == 8
DEVICE_FAILED == 128

None == << >>
Some(x) == << x >>

----------------------------------------------------------------------------
(* Integer helpers: bitwise operators on naturals, little-endian codec *)

RECURSIVE BitAnd(_, _)
BitAnd(a, b) ==
    IF a = 0 \/ b = 0 THEN 0
    ELSE (IF a % 2 = 1 /\ b % 2 = 1 THEN 1 ELSE 0) + 2 * BitAnd(a \div 2, b \div 2)

RECURSIVE BitOr(_, _)
BitOr(a, b) ==
    IF a = 0 THEN b
    ELSE IF b = 0 THEN a
    ELSE (IF a % 2 = 1 \/ b % 2 = 1 THEN 1 ELSE 0) + 2 * BitOr(a \div 2, b \div 2)

\* a & !m, for a usize a and a mask m widened from u32
RECURSIVE BitAndNot(_, _)
BitAndNot(a, m) ==
    IF a = 0 THEN 0
    ELSE (IF a % 2 = 1 /\ m % 2 = 0 THEN 1 ELSE 0) + 2 * BitAndNot(a \div 2, m \div 2)

\* LittleEndian::read_u32
ReadU32(data) ==
    data[1] + 256 * data[2] + 65536 * data[3] + 16777216 * data[4]

\* LittleEndian::write_u32
WriteU32(v) ==
    << v % 256, (v \div 256) % 256, (v \div 65536) % 256, (v \div 16777216) % 256 >>

----------------------------------------------------------------------------
(* Guest memory and virtqueue descriptors (sys_util::GuestMemory and       *)
(* virtio::Queue are used by mmio.rs; their own files are described by the *)
(* specification's data model)                                             *)

GuestAddress(hi_half, lo_half) == [hi |-> hi_half, lo |-> lo_half]

\* GuestMemory: one region starting at guest-physical address 0
GuestMemory(size) == [region_size |-> size]

\* the span [addr, addr + len) lies within guest memory
AddressSpanInRange(m, addr, len) ==
    addr.hi = 0 /\ addr.lo + len <= m.region_size

\* Queue::new(max_size)
QueueNew(max_size) ==
    [ max_size   |-> max_size,
      size       |-> max_size,
      ready      |-> FALSE,
      desc_table |-> GuestAddress(0, 0),
      avail_ring |-> GuestAddress(0, 0),
      used_ring  |-> GuestAddress(0, 0) ]

IsPowerOfTwo(n) == n > 0 /\ BitAnd(n, n - 1) = 0

NonZeroAddress(addr) == addr.hi # 0 \/ addr.lo # 0

\* Queue::is_valid(mem)
QueueIsValid(q, m) ==
    /\ q.size > 0
    /\ q.size <= q.max_size
    /\ IsPowerOfTwo(q.size)
    /\ NonZeroAddress(q.desc_table)
    /\ NonZeroAddress(q.avail_ring)
    /\ NonZeroAddress(q.used_ring)
    /\ q.desc_table.lo % 16 = 0
    /\ q.avail_ring.lo % 2 = 0
    /\ q.used_ring.lo % 4 = 0
    /\ AddressSpanInRange(m, q.desc_table, 16 * q.size)
    /\ AddressSpanInRange(m, q.avail_ring, 6 + 2 * q.size)
    /\ AddressSpanInRange(m, q.used_ring, 6 + 8 * q.size)

----------------------------------------------------------------------------
(* The backend behind the VirtioDevice capability: what it declares and a  *)
(* record of the calls the transport has made on it                        *)

\* a backend before any call: its declarations and an empty call record
VirtioDevice(dtype, max_sizes, feats) ==
    [ device_type     |-> dtype,
      queue_max_sizes |-> max_sizes,
      features        |-> feats,          \* page -> u32
      activate_calls  |-> 0,
      activated_with  |-> None,           \* Some(arguments of activate)
      acked_features  |-> [p \in DOMAIN feats |-> 0],   \* page -> bits acked so far
      config_write    |-> None,           \* Some(<<offset, bytes>>) of the latest write_config
      config_read     |-> None,           \* Some(<<offset, buffer>>) of the latest read_config
      config_calls    |-> 0 ]             \* read_config and write_config calls so far

\* VirtioDevice::features(page)
DeviceFeatures(dev, page) ==
    IF page \in DOMAIN dev.features THEN dev.features[page] ELSE 0

\* VirtioDevice::ack_features(page, value):
\* the backend accumulates the acked bits of the pages it publishes
DeviceAckFeatures(dev, page, v) ==
    IF page \in DOMAIN dev.acked_features
    THEN [dev EXCEPT !.acked_features[page] = BitOr(@, v)]
    ELSE dev

\* VirtioDevice::write_config(offset, data)
DeviceWriteConfig(dev, offset, data) ==
    [dev EXCEPT !.config_write = Some(<<offset, data>>),
                !.config_calls = @ + 1]

\* VirtioDevice::read_config(offset, data): the test backend fills the buffer
\* with the low byte of each config offset it is asked for
DeviceReadConfig(dev, offset, data) ==
    [i \in 1..Len(data) |-> (offset + i - 1) % 256]

\* the backend's call record after read_config(offset, data)
DeviceReadConfigCalled(dev, offset, data) ==
    [dev EXCEPT !.config_read = Some(<<offset, data>>),
                !.config_calls = @ + 1]

\* VirtioDevice::activate(mem, interrupt_evt, status, queues, queue_evts)
DeviceActivate(dev, a_mem, a_interrupt_evt, a_status, a_queues, a_queue_evts) ==
    [dev EXCEPT !.activate_calls = @ + 1,
                !.activated_with = Some([ mem              |-> a_mem,
                                          interrupt_evt    |-> a_interrupt_evt,
                                          interrupt_status |-> a_status,
                                          queues           |-> a_queues,
                                          queue_evts       |-> a_queue_evts ])]

----------------------------------------------------------------------------
(* MmioDevice: the struct as a record, so that the handlers are functions  *)
(* from struct to struct                                                   *)

\* the current MmioDevice (with the heap word its Arc points to)
Self ==
    [ device                |-> device,
      device_activated      |-> device_activated,
      features_select       |-> features_select,
      acked_features_select |-> acked_features_select,
      queue_select          |-> queue_select,
      interrupt_status      |-> interrupt_status,
      interrupt_evt         |-> interrupt_evt,
      driver_status         |-> driver_status,
      config_generation     |-> config_generation,
      queues                |-> queues,
      queue_evts            |-> queue_evts,
      mem                   |-> mem,
      atomics               |-> atomics,
      counters              |-> counters ]

\* the next MmioDevice is s
Becomes(s) ==
    /\ device' = s.device
    /\ device_activated' = s.device_activated
    /\ features_select' = s.features_select
    /\ acked_features_select' = s.acked_features_select
    /\ queue_select' = s.queue_select
    /\ interrupt_status' = s.interrupt_status
    /\ interrupt_evt' = s.interrupt_evt
    /\ driver_status' = s.driver_status
    /\ config_generation' = s.config_generation
    /\ queues' = s.queues
    /\ queue_evts' = s.queue_evts
    /\ mem' = s.mem
    /\ atomics' = s.atomics
    /\ counters' = s.counters

\* MmioDevice::new(mem, device): one EventFd per declared queue, created in
\* order (EventFd n is the n-th created), then the interrupt EventFd
MmioDeviceNew(m, dev) ==
    LET n == Len(dev.queue_max_sizes) IN
    [ device                |-> dev,
      device_activated      |-> FALSE,
      features_select       |-> 0,
      acked_features_select |-> 0,
      queue_select          |-> 0,
      interrupt_status      |-> 1,
      interrupt_evt         |-> Some(n + 1),
      driver_status         |-> 0,
      config_generation     |-> 0,
      queues                |-> [i \in 1..n |-> QueueNew(dev.queue_max_sizes[i])],
      queue_evts            |-> [i \in 1..n |-> i],
      mem                   |-> Some(m),
      atomics               |-> << 0 >>,
      counters              |-> [i \in 1..(n + 1) |-> 0] ]

\* faulty is_driver_ready: tests that the ready bits are set, not equality
is_driver_ready_masked(s) ==
    LET ready_bits == BitOr(BitOr(DEVICE_ACKNOWLEDGE, DEVICE_DRIVER),
                            BitOr(DEVICE_DRIVER_OK, DEVICE_FEATURES_OK)) IN
    BitAnd(s.driver_status, ready_bits) = ready_bits

\* MmioDevice::is_driver_ready
is_driver_ready(s) ==
    LET ready_bits == BitOr(BitOr(DEVICE_ACKNOWLEDGE, DEVICE_DRIVER),
                            BitOr(DEVICE_DRIVER_OK, DEVICE_FEATURES_OK)) IN
    s.driver_status = ready_bits /\ BitAnd(s.driver_status, DEVICE_FAILED) = 0

\* faulty are_queues_valid: a device needs at least one queue to be valid
are_queues_valid_nonempty(s) ==
    IF s.mem # None
    THEN /\ Len(s.queues) > 0
         /\ \A i \in 1..Len(s.queues) : QueueIsValid(s.queues[i], s.mem[1])
    ELSE FALSE

\* faulty are_queues_valid: the queues are not asked whether they are valid
are_queues_valid_unchecked(s) == s.mem # None

\* MmioDevice::are_queues_valid
are_queues_valid(s) ==
    IF s.mem # None
    THEN \A i \in 1..Len(s.queues) : QueueIsValid(s.queues[i], s.mem[1])
    ELSE FALSE

\* MmioDevice::with_queue(d, f): f is a field name of Queue
with_queue(s, d, f) ==
    IF s.queue_select + 1 \in 1..Len(s.queues)
    THEN s.queues[s.queue_select + 1][f]
    ELSE d

\* faulty with_queue_mut: the backend was given the transport's own Vec<Queue>
\* rather than a clone, so the closure's assignment shows in both
with_queue_mut_shared(s, f, x) ==
    IF s.queue_select + 1 \in 1..Len(s.queues)
    THEN [self  |-> [s EXCEPT
                       !.queues[s.queue_select + 1][f] = x,
                       !.device.activated_with =
                           IF @ = None THEN @
                           ELSE Some([@[1] EXCEPT !.queues[s.queue_select + 1][f] = x])],
          mut_q |-> TRUE,  returned |-> FALSE]
    ELSE [self |-> s, mut_q |-> FALSE, returned |-> FALSE]

\* faulty with_queue_mut: an index past the end selects the last queue
with_queue_mut_clamped(s, f, x) ==
    LET i == IF s.queue_select + 1 <= Len(s.queues)
             THEN s.queue_select + 1 ELSE Len(s.queues) IN
    IF i >= 1
    THEN [self  |-> [s EXCEPT !.queues[i][f] = x],
          mut_q |-> TRUE,  returned |-> FALSE]
    ELSE [self |-> s, mut_q |-> FALSE, returned |-> FALSE]

\* MmioDevice::with_queue_mut(f), for the closures of write: each assigns the
\* value x to the field f of the selected queue; returns the struct and the bool
with_queue_mut(s, f, x) ==
    IF s.queue_select + 1 \in 1..Len(s.queues)
    THEN [self  |-> [s EXCEPT !.queues[s.queue_select + 1][f] = x],
          mut_q |-> TRUE,  returned |-> FALSE]
    ELSE [self |-> s, mut_q |-> FALSE, returned |-> FALSE]

\* fn hi(v, x): replace bits 32..63
hi(v, x) == GuestAddress(x, v.lo)

\* faulty lo: the whole address is replaced by x
lo_clobber(v, x) == GuestAddress(0, x)

\* fn lo(v, x): replace bits 0..31
lo(v, x) == GuestAddress(v.hi, x)

NullAddress == GuestAddress(0, 0)

\* faulty split_off: the tail starts one element late
split_off_late(vec, at) ==
    [ kept |-> SubSeq(vec, 1, at + 1), tail |-> SubSeq(vec, at + 2, Len(vec)) ]

\* Vec::split_off(at): the vector keeps [0, at), the tail [at, len) is returned
split_off(vec, at) ==
    [ kept |-> SubSeq(vec, 1, at), tail |-> SubSeq(vec, at + 1, Len(vec)) ]

\* Arc::clone: a second handle to the same heap word
ArcClone(handle) == handle

\* faulty ack: fetch_and(v), the complement forgotten
fetch_and_mask(heap, h, v) == [heap EXCEPT ![h] = BitAnd(@, v)]

\* AtomicUsize::fetch_and(!(v as usize)) on the word behind handle h
fetch_and_not(heap, h, v) == [heap EXCEPT ![h] = BitAndNot(@, v)]

\* AtomicUsize::fetch_or(bits) on the word behind handle h
fetch_or(heap, h, bits) == [heap EXCEPT ![h] = BitOr(@, bits)]

\* AtomicUsize::load
load(heap, h) == heap[h]

----------------------------------------------------------------------------
(* BusDevice for MmioDevice *)

\* faulty register match of read: VIRTIO_F_VERSION_1 is not OR-ed into page 1
read_register_no_version(s, offset) ==
    CASE offset = 0   -> Some(MMIO_MAGIC_VALUE)
      [] offset = 4   -> Some(MMIO_VERSION)
      [] offset = 8   -> Some(s.device.device_type)
      [] offset = 12  -> Some(VENDOR_ID)
      [] offset = 16  -> Some(DeviceFeatures(s.device, s.features_select))
      [] offset = 52  -> Some(with_queue(s, 0, "max_size"))
      [] offset = 68  -> Some(IF with_queue(s, FALSE, "ready") THEN 1 ELSE 0)
      [] offset = 96  -> Some(load(s.atomics, s.interrupt_status))
      [] offset = 112 -> Some(s.driver_status)
      [] offset = 252 -> Some(s.config_generation)
      [] OTHER        -> None

\* read, the inner match on the register offset: Some(v), or None when the
\* register is unknown (the early return)
read_register(s, offset) ==
    CASE offset = 0   -> Some(MMIO_MAGIC_VALUE)
      [] offset = 4   -> Some(MMIO_VERSION)
      [] offset = 8   -> Some(s.device.device_type)
      [] offset = 12  -> Some(VENDOR_ID)
      [] offset = 16  -> Some(BitOr(DeviceFeatures(s.device, s.features_select),
                                    IF s.features_select = 1 THEN 1 ELSE 0))
      [] offset = 52  -> Some(with_queue(s, 0, "max_size"))
      [] offset = 68  -> Some(IF with_queue(s, FALSE, "ready") THEN 1 ELSE 0)
      [] offset = 96  -> Some(load(s.atomics, s.interrupt_status))
      [] offset = 112 -> Some(s.driver_status)
      [] offset = 252 -> Some(s.config_generation)
      [] OTHER        -> None

\* faulty read: the config window is forwarded with the bus offset
read_access_raw_offset(s, offset, data) ==
    IF offset \in 0..255 /\ Len(data) = 4
    THEN LET v == read_register(s, offset) IN
         [self |-> s, data |-> IF v = None THEN data ELSE WriteU32(v[1])]
    ELSE IF offset \in 256..4095
         THEN [self |-> [s EXCEPT !.device =
                                DeviceReadConfigCalled(@, offset, data)],
               data |-> DeviceReadConfig(s.device, offset, data)]
         ELSE [self |-> s, data |-> data]

\* faulty read: a read of 0x060 clears the interrupt status it returns
read_access_clearing(s, offset, data) ==
    IF offset \in 0..255 /\ Len(data) = 4
    THEN LET v == read_register(s, offset) IN
         [self |-> IF offset = 96
                   THEN [s EXCEPT !.atomics[s.interrupt_status] = 0] ELSE s,
          data |-> IF v = None THEN data ELSE WriteU32(v[1])]
    ELSE IF offset \in 256..4095
         THEN [self |-> [s EXCEPT !.device =
                                DeviceReadConfigCalled(@, offset - 256, data)],
               data |-> DeviceReadConfig(s.device, offset - 256, data)]
         ELSE [self |-> s, data |-> data]

\* BusDevice::read(offset, data): the struct (&mut self) and the caller's
\* buffer after the call
read_access(s, offset, data) ==
    IF offset \in 0..255 /\ Len(data) = 4
    THEN LET v == read_register(s, offset) IN
         [self |-> s, data |-> IF v = None THEN data ELSE WriteU32(v[1])]
    ELSE IF offset \in 256..4095
         THEN [self |-> [s EXCEPT !.device =
                                DeviceReadConfigCalled(@, offset - 256, data)],
               data |-> DeviceReadConfig(s.device, offset - 256, data)]
         ELSE [self |-> s, data |-> data]

\* BusDevice::read(offset, data): the caller's buffer after the call
read(s, offset, data) == read_access(s, offset, data).data

\* a plain field assignment of the register match of write
Assigned(s1) == [self |-> s1, mut_q |-> FALSE, returned |-> FALSE]

\* faulty register match: ready is set for any non-zero value
write_register_ready_nonzero(s, offset, v) ==
    CASE offset = 20  -> Assigned([s EXCEPT !.features_select = v])
      [] offset = 32  -> Assigned([s EXCEPT !.device =
                                     DeviceAckFeatures(@, s.acked_features_select, v)])
      [] offset = 36  -> Assigned([s EXCEPT !.acked_features_select = v])
      [] offset = 48  -> Assigned([s EXCEPT !.queue_select = v])
      [] offset = 56  -> with_queue_mut(s, "size", v % 65536)
      [] offset = 68  -> with_queue_mut(s, "ready", v # 0)
      [] offset = 100 -> Assigned([s EXCEPT !.atomics =
                                     fetch_and_not(@, s.interrupt_status, v)])
      [] offset = 112 -> Assigned([s EXCEPT !.driver_status = v])
      [] offset = 128 -> with_queue_mut(s, "desc_table",
                                        lo(with_queue(s, NullAddress, "desc_table"), v))
      [] offset = 132 -> with_queue_mut(s, "desc_table",
                                        hi(with_queue(s, NullAddress, "desc_table"), v))
      [] offset = 144 -> with_queue_mut(s, "avail_ring",
                                        lo(with_queue(s, NullAddress, "avail_ring"), v))
      [] offset = 148 -> with_queue_mut(s, "avail_ring",
                                        hi(with_queue(s, NullAddress, "avail_ring"), v))
      [] offset = 160 -> with_queue_mut(s, "used_ring",
                                        lo(with_queue(s, NullAddress, "used_ring"), v))
      [] offset = 164 -> with_queue_mut(s, "used_ring",
                                        hi(with_queue(s, NullAddress, "used_ring"), v))
      [] OTHER        -> [self |-> s, mut_q |-> FALSE, returned |-> TRUE]

\* faulty register match: a size above max_size is clamped to max_size
write_register_size_clamped(s, offset, v) ==
    CASE offset = 20  -> Assigned([s EXCEPT !.features_select = v])
      [] offset = 32  -> Assigned([s EXCEPT !.device =
                                     DeviceAckFeatures(@, s.acked_features_select, v)])
      [] offset = 36  -> Assigned([s EXCEPT !.acked_features_select = v])
      [] offset = 48  -> Assigned([s EXCEPT !.queue_select = v])
      [] offset = 56  -> with_queue_mut(s, "size",
                                        IF v % 65536 > with_queue(s, 0, "max_size")
                                        THEN with_queue(s, 0, "max_size")
                                        ELSE v % 65536)
      [] offset = 68  -> with_queue_mut(s, "ready", v = 1)
      [] offset = 100 -> Assigned([s EXCEPT !.atomics =
                                     fetch_and_not(@, s.interrupt_status, v)])
      [] offset = 112 -> Assigned([s EXCEPT !.driver_status = v])
      [] offset = 128 -> with_queue_mut(s, "desc_table",
                                        lo(with_queue(s, NullAddress, "desc_table"), v))
      [] offset = 132 -> with_queue_mut(s, "desc_table",
                                        hi(with_queue(s, NullAddress, "desc_table"), v))
      [] offset = 144 -> with_queue_mut(s, "avail_ring",
                                        lo(with_queue(s, NullAddress, "avail_ring"), v))
      [] offset = 148 -> with_queue_mut(s, "avail_ring",
                                        hi(with_queue(s, NullAddress, "avail_ring"), v))
      [] offset = 160 -> with_queue_mut(s, "used_ring",
                                        lo(with_queue(s, NullAddress, "used_ring"), v))
      [] offset = 164 -> with_queue_mut(s, "used_ring",
                                        hi(with_queue(s, NullAddress, "used_ring"), v))
      [] OTHER        -> [self |-> s, mut_q |-> FALSE, returned |-> TRUE]

\* write, the inner match on the register offset for the value v: the struct
\* after it, mut_q, and whether the unknown-register arm returned
write_register(s, offset, v) ==
    CASE offset = 20  -> Assigned([s EXCEPT !.features_select = v])
      [] offset = 32  -> Assigned([s EXCEPT !.device =
                                     DeviceAckFeatures(@, s.acked_features_select, v)])
      [] offset = 36  -> Assigned([s EXCEPT !.acked_features_select = v])
      [] offset = 48  -> Assigned([s EXCEPT !.queue_select = v])
      [] offset = 56  -> with_queue_mut(s, "size", v % 65536)
      [] offset = 68  -> with_queue_mut(s, "ready", v = 1)
      [] offset = 100 -> Assigned([s EXCEPT !.atomics =
                                     fetch_and_not(@, s.interrupt_status, v)])
      [] offset = 112 -> Assigned([s EXCEPT !.driver_status = v])
      [] offset = 128 -> with_queue_mut(s, "desc_table",
                                        lo(with_queue(s, NullAddress, "desc_table"), v))
      [] offset = 132 -> with_queue_mut(s, "desc_table",
                                        hi(with_queue(s, NullAddress, "desc_table"), v))
      [] offset = 144 -> with_queue_mut(s, "avail_ring",
                                        lo(with_queue(s, NullAddress, "avail_ring"), v))
      [] offset = 148 -> with_queue_mut(s, "avail_ring",
                                        hi(with_queue(s, NullAddress, "avail_ring"), v))
      [] offset = 160 -> with_queue_mut(s, "used_ring",
                                        lo(with_queue(s, NullAddress, "used_ring"), v))
      [] offset = 164 -> with_queue_mut(s, "used_ring",
                                        hi(with_queue(s, NullAddress, "used_ring"), v))
      [] OTHER        -> [self |-> s, mut_q |-> FALSE, returned |-> TRUE]

\* the guard of the activation block of write
activation_predicate(s) ==
    ~s.device_activated /\ is_driver_ready(s) /\ are_queues_valid(s)

\* faulty activation block: the resources are duplicated instead of taken
\* and the latch is not set
activate_cloning(s) ==
    IF s.interrupt_evt # None /\ s.mem # None
    THEN [s EXCEPT !.device = DeviceActivate(@, s.mem[1], s.interrupt_evt[1],
                                             ArcClone(s.interrupt_status),
                                             s.queues, s.queue_evts)]
    ELSE s

\* faulty activation block: mem is read through as_ref() and stays in place
activate_keeps_mem(s) ==
    IF s.interrupt_evt # None
    THEN LET s1 == [s EXCEPT !.interrupt_evt = None] IN
         IF s1.mem # None
         THEN LET evts == split_off(s1.queue_evts, 0) IN
              [s1 EXCEPT !.queue_evts = evts.kept,
                         !.device = DeviceActivate(@, s1.mem[1], s.interrupt_evt[1],
                                                   ArcClone(s1.interrupt_status),
                                                   s1.queues, evts.tail),
                         !.device_activated = TRUE]
         ELSE s1
    ELSE s

\* faulty activation block: queue_evts are duplicated, none is moved out
activate_keeps_queue_evts(s) ==
    IF s.interrupt_evt # None
    THEN LET s1 == [s EXCEPT !.interrupt_evt = None] IN
         IF s1.mem # None
         THEN [s1 EXCEPT !.mem = None,
                         !.device = DeviceActivate(@, s1.mem[1], s.interrupt_evt[1],
                                                   ArcClone(s1.interrupt_status),
                                                   s1.queues, s1.queue_evts),
                         !.device_activated = TRUE]
         ELSE s1
    ELSE s

\* the activation block of write: take interrupt_evt, take mem, call activate
\* with the moved resources, a clone of the status Arc, a clone of queues and
\* all of queue_evts, then set the latch
activate(s) ==
    IF s.interrupt_evt # None
    THEN LET s1 == [s EXCEPT !.interrupt_evt = None] IN
         IF s1.mem # None
         THEN LET evts == split_off(s1.queue_evts, 0) IN
              [s1 EXCEPT !.mem = None,
                         !.queue_evts = evts.kept,
                         !.device = DeviceActivate(@, s1.mem[1], s.interrupt_evt[1],
                                                   ArcClone(s1.interrupt_status),
                                                   s1.queues, evts.tail),
                         !.device_activated = TRUE]
         ELSE s1
    ELSE s

\* faulty write: the activation predicate is looked at after status writes only
write_status_gated(s, offset, data) ==
    IF offset \in 0..255 /\ Len(data) = 4
    THEN LET r == write_register(s, offset, ReadU32(data)) IN
         IF r.returned THEN r.self
         ELSE IF offset = 112 /\ activation_predicate(r.self)
              THEN activate(r.self) ELSE r.self
    ELSE IF offset \in 256..4095
         THEN [s EXCEPT !.device = DeviceWriteConfig(@, offset - 256, data)]
         ELSE s

\* faulty write: a status write of 0 is taken as a device reset and clears
\* the latch
write_with_reset(s, offset, data) ==
    IF offset \in 0..255 /\ Len(data) = 4
    THEN LET r == write_register(s, offset, ReadU32(data)) IN
         IF r.returned THEN r.self
         ELSE IF activation_predicate(r.self) THEN activate(r.self)
              ELSE IF offset = 112 /\ ReadU32(data) = 0
                   THEN [r.self EXCEPT !.device_activated = FALSE]
                   ELSE r.self
    ELSE IF offset \in 256..4095
         THEN [s EXCEPT !.device = DeviceWriteConfig(@, offset - 256, data)]
         ELSE s

\* faulty write: a write of a queue index to 0x050 (QueueNotify) signals
\* that queue's EventFd
write_notifying(s, offset, data) ==
    IF offset = 80 /\ Len(data) = 4 /\ ReadU32(data) + 1 \in DOMAIN s.queue_evts
    THEN [s EXCEPT !.counters[s.queue_evts[ReadU32(data) + 1]] = @ + 1]
    ELSE IF offset \in 0..255 /\ Len(data) = 4
    THEN LET r == write_register(s, offset, ReadU32(data)) IN
         IF r.returned THEN r.self
         ELSE IF activation_predicate(r.self) THEN activate(r.self) ELSE r.self
    ELSE IF offset \in 256..4095
         THEN [s EXCEPT !.device = DeviceWriteConfig(@, offset - 256, data)]
         ELSE s

\* faulty write: the register window takes an access of any width, using
\* its first byte
write_any_width(s, offset, data) ==
    IF offset \in 0..255
    THEN LET r == write_register(s, offset, data[1]) IN
         IF r.returned THEN r.self
         ELSE IF activation_predicate(r.self) THEN activate(r.self) ELSE r.self
    ELSE IF offset \in 256..4095
         THEN [s EXCEPT !.device = DeviceWriteConfig(@, offset - 256, data)]
         ELSE s

\* BusDevice::write(offset, data): the struct after the call.  The warning
\* logged when a queue is changed after activation changes no state.
write(s, offset, data) ==
    IF offset \in 0..255 /\ Len(data) = 4
    THEN LET r == write_register(s, offset, ReadU32(data)) IN
         IF r.returned THEN r.self
         ELSE IF activation_predicate(r.self) THEN activate(r.self) ELSE r.self
    ELSE IF offset \in 256..4095
         THEN [s EXCEPT !.device = DeviceWriteConfig(@, offset - 256, data)]
         ELSE s

----------------------------------------------------------------------------
(* sys_util::EventFd and ScopedEvent.  e packs the kernel counters and the *)
(* objects; an object is [fd, kind, live, endpoint]: fd names the kernel   *)
(* counter its descriptor refers to, live is FALSE once it was dropped,    *)
(* and endpoint records which eventfd() call it descends from.             *)

Evt == [counters |-> counters, handles |-> handles]

NewHandle(fd, kind, endpoint) ==
    [fd |-> fd, kind |-> kind, live |-> TRUE, endpoint |-> endpoint]

\* EventFd::new(): eventfd(0, 0) allocates a counter with value 0
EventFd_new(e) ==
    [counters |-> Append(e.counters, 0),
     handles  |-> Append(e.handles,
                         NewHandle(Len(e.counters) + 1, "EventFd", Len(e.counters) + 1))]

\* EventFd::write(v): adds v to the count
EventFd_write(e, h, v) == [e EXCEPT !.counters[e.handles[h].fd] = @ + v]

\* EventFd::read(): resets the count to zero and returns what it was
EventFd_read(e, h) ==
    [e   |-> [e EXCEPT !.counters[e.handles[h].fd] = 0],
     buf |-> e.counters[e.handles[h].fd]]

\* faulty try_clone: the new EventFd gets a counter of its own
EventFd_try_clone_fresh(e, h) ==
    [counters |-> Append(e.counters, 0),
     handles  |-> Append(e.handles,
                         NewHandle(Len(e.counters) + 1, "EventFd", e.handles[h].endpoint))]

\* EventFd::try_clone(): dup gives a descriptor of the same kernel count
EventFd_try_clone(e, h) ==
    [e EXCEPT !.handles =
                 Append(@, NewHandle(e.handles[h].fd, "EventFd", e.handles[h].endpoint))]

\* From<EventFd> for ScopedEvent
ScopedEvent_from(e, h) == [e EXCEPT !.handles[h].kind = "ScopedEvent"]

\* ScopedEvent::new(): EventFd::new()?.into()
ScopedEvent_new(e) == ScopedEvent_from(EventFd_new(e), Len(e.handles) + 1)

\* From<ScopedEvent> for EventFd: ptr::read takes the EventFd out and
\* mem::forget keeps Drop from running
EventFd_from(e, h) == [e EXCEPT !.handles[h].kind = "EventFd"]

\* faulty Drop for ScopedEvent: the object goes away without a write
ScopedEvent_drop_silent(e, h) == [e EXCEPT !.handles[h].live = FALSE]

\* Drop for ScopedEvent: self.write(1), then the descriptor is closed
ScopedEvent_drop(e, h) == [EventFd_write(e, h, 1) EXCEPT !.handles[h].live = FALSE]

----------------------------------------------------------------------------
(* Actions *)

\* MmioDevice::new(mem, dev) has returned; no bus access has been made
Constructed(dev) ==
    LET s == MmioDeviceNew(GuestMemory(GuestMemSize), dev) IN
    /\ device = s.device
    /\ device_activated = s.device_activated
    /\ features_select = s.features_select
    /\ acked_features_select = s.acked_features_select
    /\ queue_select = s.queue_select
    /\ interrupt_status = s.interrupt_status
    /\ interrupt_evt = s.interrupt_evt
    /\ driver_status = s.driver_status
    /\ config_generation = s.config_generation
    /\ queues = s.queues
    /\ queue_evts = s.queue_evts
    /\ mem = s.mem
    /\ atomics = s.atomics
    /\ counters = s.counters
    /\ rdata = << >>
    /\ handles = << >>
    /\ pending = << >>
    /\ evt_ret = None

\* the bus dispatcher calls write(offset, data)
Write(offset, data) ==
    /\ device.activate_calls < MaxActivateCalls
    /\ device.config_calls < MaxConfigCalls
    /\ Becomes(write(Self, offset, data))
    /\ UNCHANGED <<rdata, evt_vars>>

\* the bus dispatcher calls read(offset, data) with the caller's buffer data
Read(offset, data) ==
    /\ device.config_calls < MaxConfigCalls
    /\ Becomes(read_access(Self, offset, data).self)
    /\ rdata' = read_access(Self, offset, data).data
    /\ UNCHANGED evt_vars

\* a worker of the activated backend raises interrupt-status bits through
\* the Arc it was given at activation
Raise(bits) ==
    /\ device.activated_with # None
    /\ atomics' = fetch_or(atomics, device.activated_with[1].interrupt_status, bits)
    /\ UNCHANGED <<device, device_activated, features_select, acked_features_select,
                   queue_select, interrupt_status, interrupt_evt, driver_status,
                   config_generation, queues, queue_evts, mem, rdata,
                   counters, evt_vars>>

\* the fields of the transport other than the kernel counters
mmio_vars == <<device, device_activated, features_select, acked_features_select,
               queue_select, interrupt_status, interrupt_evt, driver_status,
               config_generation, queues, queue_evts, mem, atomics, rdata>>

\* the VMM's ioeventfd: the guest wrote the index of queue i at the notify
\* offset and the kernel signalled queue_evts[i] without calling the transport
KvmNotify(i) ==
    /\ i \in 1..Len(queues)
    /\ counters[i] < MaxCount
    /\ counters' = [counters EXCEPT ![i] = @ + 1]
    /\ UNCHANGED <<mmio_vars, evt_vars>>

\* a worker of the activated backend takes the notifications of queue i
BackendWait(i) ==
    /\ device.activated_with # None
    /\ i \in DOMAIN device.activated_with[1].queue_evts
    /\ counters[device.activated_with[1].queue_evts[i]] > 0
    /\ counters' = [counters EXCEPT ![device.activated_with[1].queue_evts[i]] = 0]
    /\ UNCHANGED <<mmio_vars, evt_vars>>

\* a worker of the activated backend signals the interrupt EventFd
BackendInterrupt ==
    /\ device.activated_with # None
    /\ counters[device.activated_with[1].interrupt_evt] < MaxCount
    /\ counters' = [counters EXCEPT ![device.activated_with[1].interrupt_evt] = @ + 1]
    /\ UNCHANGED <<mmio_vars, evt_vars>>

\* pending, with an entry 0 for each counter allocated since
PendingFor(cs) == [i \in 1..Len(cs) |-> IF i <= Len(pending) THEN pending[i] ELSE 0]

LiveHandles == { h \in DOMAIN handles : handles[h].live }

EvtBecomes(e) ==
    /\ counters' = e.counters
    /\ handles' = e.handles

EvtNew ==
    /\ Len(handles) < MaxHandles
    /\ EvtBecomes(EventFd_new(Evt))
    /\ pending' = PendingFor(counters')
    /\ UNCHANGED <<mmio_vars, evt_ret>>

ScopedNew ==
    /\ Len(handles) < MaxHandles
    /\ EvtBecomes(ScopedEvent_new(Evt))
    /\ pending' = PendingFor(counters')
    /\ UNCHANGED <<mmio_vars, evt_ret>>

\* write(v) through the object h returns once the count can take v
EvtWrite(h, v) ==
    /\ h \in LiveHandles
    /\ counters[handles[h].fd] + v <= MaxCount
    /\ EvtBecomes(EventFd_write(Evt, h, v))
    /\ pending' = [PendingFor(counters) EXCEPT ![handles[h].endpoint] = @ + v]
    /\ UNCHANGED <<mmio_vars, evt_ret>>

\* read() through the object h returns once the count is non-zero
EvtRead(h) ==
    /\ h \in LiveHandles
    /\ counters[handles[h].fd] > 0
    /\ EvtBecomes(EventFd_read(Evt, h).e)
    /\ evt_ret' = Some(EventFd_read(Evt, h).buf)
    /\ pending' = [PendingFor(counters) EXCEPT ![handles[h].endpoint] = 0]
    /\ UNCHANGED mmio_vars

EvtTryClone(h) ==
    /\ h \in LiveHandles
    /\ Len(handles) < MaxHandles
    /\ EvtBecomes(EventFd_try_clone(Evt, h))
    /\ pending' = PendingFor(counters')
    /\ UNCHANGED <<mmio_vars, evt_ret>>

ScopedFrom(h) ==
    /\ h \in LiveHandles
    /\ handles[h].kind = "EventFd"
    /\ EvtBecomes(ScopedEvent_from(Evt, h))
    /\ UNCHANGED <<mmio_vars, pending, evt_ret>>

ScopedInto(h) ==
    /\ h \in LiveHandles
    /\ handles[h].kind = "ScopedEvent"
    /\ EvtBecomes(EventFd_from(Evt, h))
    /\ UNCHANGED <<mmio_vars, pending, evt_ret>>

\* the ScopedEvent h goes out of scope
ScopedDrop(h) ==
    /\ h \in LiveHandles
    /\ handles[h].kind = "ScopedEvent"
    /\ counters[handles[h].fd] + 1 <= MaxCount
    /\ EvtBecomes(ScopedEvent_drop(Evt, h))
    /\ pending' = [PendingFor(counters) EXCEPT ![handles[h].endpoint] = @ + 1]
    /\ UNCHANGED <<mmio_vars, evt_ret>>

----------------------------------------------------------------------------
(* Spec: the activation lifecycle.  A backend declaring two queues; the    *)
(* driver writes every writable register, with values that make each       *)
(* queue valid and invalid and the status ready and not ready.             *)

\* the writable registers, and one offset (0x000) that no write arm matches
WritableRegisters == {20, 32, 36, 48, 56, 68, 100, 112, 128, 132, 144, 148, 160, 164}

LifecycleDevice == VirtioDevice(1, <<16, 8>>, [p \in {0, 1} |-> 0])

\* the values the driver writes to each register under Spec
LifecycleValues(offset) ==
    CASE offset = 48  -> {0, 1}
      [] offset = 56  -> {3, 65552}
      [] offset = 68  -> {0, 1}
      [] offset = 112 -> {0, 15, 143}
      [] offset \in {128, 144, 160} -> {0, 4096}
      [] OTHER -> {0}

Init == Constructed(LifecycleDevice)

DriverWrite ==
    \E offset \in WritableRegisters \cup {0} :
        \E v \in LifecycleValues(offset) : Write(offset, WriteU32(v))

Next == DriverWrite

Spec == Init /\ [][Next]_vars

----------------------------------------------------------------------------
(* SpecIrq: the interrupt-status word shared with the backend.  A backend  *)
(* declaring one queue; once activated its workers raise bits while the    *)
(* driver acks them.  write touches the word in one atomic read-modify-    *)
(* write and a raise is one atomic read-modify-write, so the interleavings *)
(* of bus calls and raises are the interleavings of the atomic operations. *)

IrqDevice == VirtioDevice(1, <<16>>, [p \in {0, 1} |-> 0])

\* the masks the driver writes to 0x064
AckMasks == {1, 2, 5}

\* the bits a backend worker raises in one fetch_or
RaiseBits == {3, 4}

IrqValues(offset) ==
    CASE offset = 100 -> AckMasks
      [] offset = 112 -> {0, 15}
      [] offset = 68  -> {0, 1}
      [] offset \in {128, 144, 160} -> {0, 4096}
      [] OTHER -> {0}

InitIrq == Constructed(IrqDevice)

IrqDriverWrite ==
    \E offset \in WritableRegisters \cup {0} :
        \E v \in IrqValues(offset) : Write(offset, WriteU32(v))

BackendRaise == \E bits \in RaiseBits : Raise(bits)

NextIrq == IrqDriverWrite \/ BackendRaise

SpecIrq == InitIrq /\ [][NextIrq]_vars

----------------------------------------------------------------------------
(* SpecBus: the register file as the driver sees it.  A backend declaring  *)
(* one queue; 4-byte reads and writes of the registers, with values that   *)
(* show the truncations.                                                   *)

BusDevice == VirtioDevice(1, <<16>>, [p \in {0, 1} |-> 0])

ReadableRegisters == {0, 4, 8, 12, 16, 52, 68, 96, 112, 252}

BusValues(offset) ==
    CASE offset = 48  -> {0, 1}
      [] offset = 56  -> {65539}
      [] offset = 68  -> {0, 1, 2}
      [] offset = 112 -> {0, 3, 15}
      [] offset \in {128, 144, 160} -> {4096}
      [] OTHER -> {0}

InitBus == Constructed(BusDevice)

BusWrite ==
    \E offset \in WritableRegisters \cup {0} :
        \E v \in BusValues(offset) : Write(offset, WriteU32(v))

\* 0x020 is write-only: its read takes the unknown-register arm
BusRead ==
    \E offset \in ReadableRegisters \cup {32} : Read(offset, <<0, 0, 0, 0>>)

NextBus == BusWrite \/ BusRead

SpecBus == InitBus /\ [][NextBus]_vars

----------------------------------------------------------------------------
(* SpecFeat: feature negotiation.  Backends declaring no queue and         *)
(* publishing two feature pages, page 1 with and without bit 0 set; the    *)
(* driver selects pages (page 2 is one the backend does not publish),      *)
(* acks bits and reads the registers.                                      *)

FeatDevices ==
    { VirtioDevice(2, << >>, [p \in {0, 1} |-> IF p = 0 THEN 48 ELSE f1]) : f1 \in {6, 7} }

\* the pages the driver writes to 0x014 and 0x024
FeatPages == {0, 1, 2}

FeatValues(offset) ==
    CASE offset \in {20, 36} -> FeatPages
      [] offset = 32  -> {0, 5}
      [] offset = 112 -> {0, 15}
      [] OTHER -> {0}

InitFeat == \E dev \in FeatDevices : Constructed(dev)

FeatWrite ==
    \E offset \in WritableRegisters \cup {0} :
        \E v \in FeatValues(offset) : Write(offset, WriteU32(v))

FeatRead ==
    \E offset \in ReadableRegisters : Read(offset, <<0, 0, 0, 0>>)

NextFeat == FeatWrite \/ FeatRead

SpecFeat == InitFeat /\ [][NextFeat]_vars

----------------------------------------------------------------------------
(* SpecWidth: accesses of every width.  One queue; the driver sets it up   *)
(* with 4-byte writes, and also makes 1-, 2- and 8-byte accesses to the    *)
(* register window and accesses of several widths to the config window.    *)

WidthValues(offset) ==
    CASE offset = 56  -> {16}
      [] offset = 68  -> {1}
      [] offset = 112 -> {15}
      [] offset \in {128, 144, 160} -> {4096}
      [] OTHER -> {0}

\* register-window offsets accessed with a wrong width
WindowOffsets == WritableRegisters \cup ReadableRegisters \cup {80, 255}

\* buffers that are not 4 bytes long
NarrowData == { <<15>>, <<15, 0>>, <<15, 0, 0, 0, 0, 0, 0, 0>> }

\* bus offsets in the config window
ConfigOffsets == {256, 260, 4095}

ConfigData == { <<9>>, <<222, 173>>, <<1, 0, 0, 0>> }

InitWidth == Constructed(BusDevice)

WidthWrite ==
    \E offset \in {56, 68, 112, 128, 144, 160} :
        \E v \in WidthValues(offset) : Write(offset, WriteU32(v))

WidthRead == \E offset \in {68, 112} : Read(offset, <<0, 0, 0, 0>>)

NarrowWrite == \E offset \in {56, 112} : \E data \in NarrowData : Write(offset, data)

NarrowRead == \E offset \in {0, 112} : Read(offset, <<15, 0>>)

ConfigWrite == \E offset \in {260, 4095} : Write(offset, <<222, 173>>)

ConfigRead == \E offset \in {260, 4095} : Read(offset, <<9>>)

NextWidth ==
    \/ WidthWrite
    \/ WidthRead
    \/ NarrowWrite
    \/ NarrowRead
    \/ ConfigWrite
    \/ ConfigRead

SpecWidth == InitWidth /\ [][NextWidth]_vars

----------------------------------------------------------------------------
(* SpecEvt: the notification endpoints.  Beside an untouched transport the *)
(* program makes EventFd and ScopedEvent objects, duplicates them, writes  *)
(* and reads through any of them, converts them and lets them go.          *)

\* the values written through an EventFd
EvtValues == {1, 2}

InitEvt == Constructed(BusDevice)

EvtCalls ==
    \E h \in DOMAIN handles :
        \/ \E v \in EvtValues : EvtWrite(h, v)
        \/ EvtRead(h)
        \/ EvtTryClone(h)

ScopedCalls ==
    \E h \in DOMAIN handles :
        \/ ScopedFrom(h)
        \/ ScopedInto(h)
        \/ ScopedDrop(h)

NextEvt ==
    \/ EvtNew
    \/ ScopedNew
    \/ EvtCalls
    \/ ScopedCalls

SpecEvt == InitEvt /\ [][NextEvt]_vars

----------------------------------------------------------------------------
(* SpecNotify: the transport beside its endpoints in use.  One queue; the  *)
(* driver sets it up, activates, and writes queue indexes to 0x050, while  *)
(* the kernel signals the queue's EventFd and the backend's worker waits   *)
(* on it and signals the interrupt EventFd.                                *)

InitNotify == Constructed(BusDevice)

NotifyWrite ==
    \E offset \in {56, 68, 80, 112, 128, 144, 160} :
        \E v \in WidthValues(offset) : Write(offset, WriteU32(v))

NotifyRead == \E offset \in {96, 112} : Read(offset, <<0, 0, 0, 0>>)

GuestNotify == \E i \in 1..Len(queues) : KvmNotify(i)

WorkerWait == \E i \in 1..Len(queues) : BackendWait(i)

NextNotify ==
    \/ NotifyWrite
    \/ NotifyRead
    \/ GuestNotify
    \/ WorkerWait
    \/ BackendInterrupt

SpecNotify == InitNotify /\ [][NextNotify]_vars

----------------------------------------------------------------------------
(* SpecAddr: the ring addresses.  Two queues; the driver selects either    *)
(* and writes the low and the high register of each ring in any order.     *)

\* values written to the low and to the high register of a ring address
AddrLows == {4096}

AddrHighs == {1}

AddrValues(offset) ==
    CASE offset = 48 -> {0, 1}
      [] offset \in {128, 144, 160} -> AddrLows
      [] offset \in {132, 148, 164} -> AddrHighs

InitAddr == Constructed(LifecycleDevice)

AddrWrite ==
    \E offset \in {48, 128, 132, 144, 148, 160, 164} :
        \E v \in AddrValues(offset) : Write(offset, WriteU32(v))

NextAddr == AddrWrite

SpecAddr == InitAddr /\ [][NextAddr]_vars

----------------------------------------------------------------------------
(* SpecRead: reads in every state of the transport.  One queue; the driver *)
(* sets it up, activates and acks interrupts, the backend's worker raises  *)
(* interrupt-status bits, and reads of every register, of wrong widths, of *)
(* the config window and of an offset outside both windows come between.   *)

ReadSetupValues(offset) ==
    CASE offset = 48  -> {0, 1}
      [] offset = 100 -> {1}
      [] OTHER -> WidthValues(offset)

InitRead == Constructed(BusDevice)

ReadSetupWrite ==
    \E offset \in {48, 68, 100, 112, 128, 144, 160} :
        \E v \in ReadSetupValues(offset) : Write(offset, WriteU32(v))

ReadRaise == Raise(3)

RegisterRead ==
    \E offset \in ReadableRegisters \cup {32} : Read(offset, <<0, 0, 0, 0>>)

OtherRead ==
    \/ Read(96, <<15, 0>>)
    \/ Read(256, <<9>>)
    \/ Read(4096, <<0, 0, 0, 0>>)

NextRead ==
    \/ ReadSetupWrite
    \/ ReadRaise
    \/ RegisterRead
    \/ OtherRead

SpecRead == InitRead /\ [][NextRead]_vars

----------------------------------------------------------------------------
(* SpecNoQueue: a backend that declares no queue.  The driver negotiates   *)
(* features and walks the status register up to 0x0F and back; no queue    *)
(* register is ever written.                                               *)

\* the registers that are not per-queue
NoQueueRegisters == {20, 32, 36, 100, 112}

NoQueueValues(offset) ==
    CASE offset \in {20, 36} -> {0, 1}
      [] offset = 32  -> {0, 5}
      [] offset = 112 -> {0, 1, 3, 11, 15, 143}
      [] OTHER -> {0}

InitNoQueue == \E dev \in FeatDevices : Constructed(dev)

NoQueueWrite ==
    \E offset \in NoQueueRegisters :
        \E v \in NoQueueValues(offset) : Write(offset, WriteU32(v))

NoQueueRead == \E offset \in {52, 68, 112} : Read(offset, <<0, 0, 0, 0>>)

NextNoQueue == NoQueueWrite \/ NoQueueRead

SpecNoQueue == InitNoQueue /\ [][NextNoQueue]_vars

----------------------------------------------------------------------------
(* Claims *)

\* the 4-byte value a read of register offset returns in the current state
ReadValue(offset) == ReadU32(read(Self, offset, <<0, 0, 0, 0>>))

\* the 4-byte value a read of register r returns right after a write of v
\* to register w in the current state
ReadAfterWrite(w, v, r) ==
    ReadU32(read(write(Self, w, WriteU32(v)), r, <<0, 0, 0, 0>>))

\* the arguments of the backend's activate call
Activation == device.activated_with[1]

AllQueuesValid(qs, m) == \A i \in 1..Len(qs) : QueueIsValid(qs[i], m)

\* C1: over any sequence of bus calls the backend's activate is called at
\* most once, and device_activated never goes from true back to false (so
\* it goes from false to true at most once)
C1_ActivateAtMostOnce ==
    /\ [](device.activate_calls <= 1)
    /\ [][device_activated => device_activated']_vars
    /\ [][device'.activate_calls # device.activate_calls =>
            ~device_activated /\ device_activated']_vars

C1_Witness ==
    device_activated /\ device.activate_calls = 1 /\ driver_status = 143

\* C2: activate is called only in a write after which driver_status is
\* exactly 0x0F and every queue is valid against the guest memory the
\* transport held; a status write that does not activate is still read back
C2_ActivateOnlyWhenReady ==
    /\ [][device'.activate_calls # device.activate_calls =>
            /\ driver_status' = 15
            /\ mem # None
            /\ AllQueuesValid(queues', mem[1])]_vars
    /\ [](device.activate_calls = 0 => ~device_activated)
    /\ [](\A v \in LifecycleValues(112) :
            ReadAfterWrite(112, v, 112) = v)

C2_Witness ==
    /\ driver_status = 15
    /\ ~device_activated
    /\ device.activate_calls = 0
    /\ mem # None
    /\ ~AllQueuesValid(queues, mem[1])

\* C3: between calls there is no state in which driver_status is 0x0F, all
\* queues are valid, mem and interrupt_evt are present and the device is
\* not activated: whichever write makes the predicate true activates
C3_PredicateCheckedAfterEveryWrite ==
    (/\ driver_status = 15
     /\ mem # None
     /\ interrupt_evt # None
     /\ AllQueuesValid(queues, mem[1])) => device_activated

\* activated by a write that left the status register alone: the queues of
\* the snapshot are valid, the last of them became so with status 0x0F set
C3_Witness ==
    /\ device_activated
    /\ driver_status = 15
    /\ Activation.queues = queues

\* C4: the activate call receives the transport's guest memory, its
\* interrupt EventFd, all queue EventFds in queue order, a copy of the
\* queues as they are after that write, and the transport's own status Arc
C4_ActivationArguments ==
    [][device'.activate_calls # device.activate_calls =>
         /\ mem # None /\ Activation'.mem = mem[1]
         /\ interrupt_evt # None /\ Activation'.interrupt_evt = interrupt_evt[1]
         /\ Activation'.queue_evts = queue_evts
         /\ Len(Activation'.queue_evts) = Len(Activation'.queues)
         /\ Activation'.queues = queues'
         /\ Activation'.interrupt_status = interrupt_status'
         /\ interrupt_status' = interrupt_status]_vars

C4_Witness ==
    /\ device.activate_calls = 1
    /\ Activation.queue_evts = <<1, 2>>
    /\ Activation.interrupt_evt = 3
    /\ Len(Activation.queues) = 2

\* C5: mem and interrupt_evt are both present while device_activated is
\* false and both absent once it is true
C5_ResourcesMovedTogether ==
    /\ ~device_activated => (mem # None /\ interrupt_evt # None)
    /\ device_activated => (mem = None /\ interrupt_evt = None)

C5_Witness == device_activated /\ mem = None /\ interrupt_evt = None

\* C6: before activation queue_evts has one EventFd per queue the backend
\* declared; after activation queue_evts is empty and queues keeps its length
C6_QueueEvtsLength ==
    /\ Len(queues) = Len(device.queue_max_sizes)
    /\ ~device_activated => Len(queue_evts) = Len(queues)
    /\ device_activated => Len(queue_evts) = 0

C6_Witness == device_activated /\ queue_evts = << >> /\ Len(queues) = 2

\* C7: after activation a write of 0 to 0x070 is accepted (0x070 then reads
\* 0) but the latch stays set, and a write of 0x0F afterwards does not make
\* a second activate call
C7_StatusResetKeepsLatch ==
    device_activated =>
        \A v \in {0, 15} :
            LET after == write(Self, 112, WriteU32(v)) IN
            /\ ReadAfterWrite(112, v, 112) = v
            /\ after.device_activated
            /\ after.device.activate_calls = device.activate_calls
            /\ device.activate_calls = 1

C7_Witness == device_activated /\ driver_status = 0 /\ device.activate_calls = 1

\* the queue field a queue register writes, and the value it gets from v
QueueRegisters == {56, 68, 128, 132, 144, 148, 160, 164}

ExpectedQueue(q, offset, v) ==
    CASE offset = 56  -> [q EXCEPT !.size = v % 65536]
      [] offset = 68  -> [q EXCEPT !.ready = (v = 1)]
      [] offset = 128 -> [q EXCEPT !.desc_table.lo = v]
      [] offset = 132 -> [q EXCEPT !.desc_table.hi = v]
      [] offset = 144 -> [q EXCEPT !.avail_ring.lo = v]
      [] offset = 148 -> [q EXCEPT !.avail_ring.hi = v]
      [] offset = 160 -> [q EXCEPT !.used_ring.lo = v]
      [] offset = 164 -> [q EXCEPT !.used_ring.hi = v]

\* C9: after activation the queue registers still change the transport's
\* own descriptors, and no write changes what the backend was given
C9_SnapshotUnchanged ==
    /\ [][device_activated => device'.activated_with = device.activated_with]_vars
    /\ [](device_activated =>
            \A offset \in QueueRegisters : \A v \in LifecycleValues(offset) :
                LET after == write(Self, offset, WriteU32(v)) IN
                /\ after.queues = [queues EXCEPT ![queue_select + 1] =
                                      ExpectedQueue(@, offset, v)]
                /\ after.device.activated_with = device.activated_with)

\* the transport's descriptors have diverged from the backend's snapshot
C9_Witness ==
    /\ device_activated
    /\ Activation.queues[1].size = 16
    /\ queues[1].size = 3
    /\ queues[2].desc_table # Activation.queues[2].desc_table

\* bit b of the natural x
Bit(x, b) == (x \div (2 ^ b)) % 2 = 1

\* number of low bits of the interrupt-status word the raises and acks use
IrqWidth == 3

\* the interrupt-status word as the transport reads it
IrqWord == load(atomics, interrupt_status)

\* w2 is w with the bits of m cleared and every other bit kept
IsAcked(w2, w, m) ==
    /\ w2 < 2 ^ IrqWidth
    /\ \A b \in 0..(IrqWidth - 1) : Bit(w2, b) <=> (Bit(w, b) /\ ~Bit(m, b))

\* w2 is w with the bits of r set and every other bit kept
IsRaised(w2, w, r) ==
    /\ w2 < 2 ^ IrqWidth
    /\ \A b \in 0..(IrqWidth - 1) : Bit(w2, b) <=> (Bit(w, b) \/ Bit(r, b))

\* C8: a write of m to 0x064 leaves the status word s AND NOT m; the word is
\* only ever changed by one whole ack or one whole raise, so the acks and
\* raises take effect in the order of their steps: a bit is lost only to an
\* ack whose mask holds it, taken after the raise that set it
C8_AckIsAtomicAndNot ==
    /\ [](\A m \in AckMasks :
            IsAcked(ReadAfterWrite(100, m, 96), IrqWord, m))
    /\ [][IrqWord' # IrqWord =>
            \/ \E m \in AckMasks : IsAcked(IrqWord', IrqWord, m)
            \/ \E r \in RaiseBits : IsRaised(IrqWord', IrqWord, r)]_vars
    /\ [][\A b \in 0..(IrqWidth - 1) :
            (Bit(IrqWord, b) /\ ~Bit(IrqWord', b)) =>
                \E m \in AckMasks :
                    Bit(m, b) /\ Write(100, WriteU32(m))]_vars
    /\ [](device.activated_with # None =>
            Activation.interrupt_status = interrupt_status)

\* the backend raised 0b11 and the driver acked 0b01: 0x060 reads 0b10
C8_Witness == device_activated /\ ReadValue(96) = 2

\* C10: a read of 0x070 returns the value last written to 0x070, and a read
\* of 0x044 returns 1 iff the value last written to 0x044 for the selected
\* queue was 1, before and after activation: the read right after the write
\* returns it, and no other call changes what the register reads
C10_ReadReturnsLastWrite ==
    /\ [](\A v \in BusValues(112) : ReadAfterWrite(112, v, 112) = v)
    /\ [](queue_select < Len(queues) =>
            \A v \in BusValues(68) :
                ReadAfterWrite(68, v, 68) = (IF v = 1 THEN 1 ELSE 0))
    /\ [][ReadValue(112)' # ReadValue(112) =>
            \E v \in BusValues(112) : Write(112, WriteU32(v))]_vars
    /\ [][(queue_select' = queue_select /\ ReadValue(68)' # ReadValue(68)) =>
            \E v \in BusValues(68) : Write(68, WriteU32(v))]_vars

\* after activation the driver wrote 3 to 0x070 and read it back
C10_Witness ==
    device_activated /\ driver_status = 3 /\ rdata = WriteU32(3)

\* features(p) of the backend with bit 0 set when p is 1
ExpectedFeatures(p) ==
    LET f == IF p \in DOMAIN device.features THEN device.features[p] ELSE 0 IN
    IF p = 1 /\ f % 2 = 0 THEN f + 1 ELSE f

\* C11: after page p is written to 0x014 a read of 0x010 returns the
\* backend's features(p), with bit 0 OR-ed in when p is 1 and as published
\* for every other p; only a write to 0x014 changes what 0x010 reads
C11_FeaturePageRoundTrip ==
    /\ [](\A p \in FeatPages : ReadAfterWrite(20, p, 16) = ExpectedFeatures(p))
    /\ [](ReadValue(16) = ExpectedFeatures(features_select))
    /\ [][ReadValue(16)' # ReadValue(16) =>
            \E p \in FeatPages : Write(20, WriteU32(p))]_vars

\* page 1 was selected, other registers were written, and 0x010 read 6 | 1
C11_Witness ==
    /\ features_select = 1
    /\ device.features[1] = 6
    /\ device.acked_features[1] = 5
    /\ rdata = WriteU32(7)

\* C12: while queue_select names no queue, a write to any per-queue register
\* changes no queue descriptor (nor anything else), and reads of 0x034 and
\* 0x044 return 0
C12_OutOfRangeSelect ==
    queue_select >= Len(queues) =>
        /\ \A offset \in QueueRegisters : \A v \in BusValues(offset) :
               /\ write(Self, offset, WriteU32(v)).queues = queues
               /\ write(Self, offset, WriteU32(v)) = Self
        /\ ReadValue(52) = 0
        /\ ReadValue(68) = 0

\* no queue is selected while the only queue is ready with a size set, and
\* a read returned 0
C12_Witness ==
    /\ queue_select = Len(queues)
    /\ queues[1].ready
    /\ queues[1].size = 3
    /\ rdata = WriteU32(0)

\* C13: an access to the register window whose buffer is not 4 bytes long
\* is ignored: a read returns the buffer as it was and changes nothing, a
\* write changes nothing (so activates nothing and calls no backend method)
C13_WrongWidthIgnored ==
    \A offset \in WindowOffsets : \A data \in NarrowData :
        /\ write(Self, offset, data) = Self
        /\ read_access(Self, offset, data).self = Self
        /\ read_access(Self, offset, data).data = data

\* the queue is valid and the status register still 0, where a 2-byte write
\* of 0x0F to 0x070 would activate if it were taken; a 2-byte read of the
\* register window returned its buffer untouched
C13_Witness ==
    /\ are_queues_valid(Self)
    /\ driver_status = 0
    /\ ~device_activated
    /\ device.config_calls = 0
    /\ rdata = <<15, 0>>

\* C14: an access of any width to 0x100..0xFFF is one read_config or
\* write_config call with the offset less 0x100 and the same bytes, and
\* changes nothing else
C14_ConfigForwarded ==
    \A offset \in ConfigOffsets : \A data \in ConfigData \cup NarrowData :
        /\ write(Self, offset, data) =
              [Self EXCEPT !.device.config_write = Some(<<offset - 256, data>>),
                           !.device.config_calls = @ + 1]
        /\ read_access(Self, offset, data).self =
              [Self EXCEPT !.device.config_read = Some(<<offset - 256, data>>),
                           !.device.config_calls = @ + 1]
        /\ read_access(Self, offset, data).data =
              [i \in 1..Len(data) |-> (offset - 256 + i - 1) % 256]

\* write of DE AD to bus offset 0x104 reached the backend as write_config(4),
\* and a 1-byte read of 0xFFF as read_config(0xEFF)
C14_Witness ==
    /\ device.config_write = Some(<<4, <<222, 173>>>>)
    /\ device.config_read = Some(<<3839, <<9>>>>)
    /\ rdata = <<255>>
    /\ device.config_calls = 2

\* the objects that are handles of the same endpoint as h
SameEndpoint(h) ==
    { g \in DOMAIN handles : handles[g].endpoint = handles[h].endpoint }

\* C15: all handles of an endpoint see one counter, which holds the sum of
\* the values written through any of them since the previous read; a write
\* of v adds v for every handle, and a read through any handle happens only
\* when that sum is positive, returns it, and leaves 0 for every handle
C15_OneSharedCounter ==
    /\ [](\A h \in DOMAIN handles :
             counters[handles[h].fd] = pending[handles[h].endpoint])
    /\ [][\A h \in DOMAIN handles :
             /\ EvtRead(h) =>
                   /\ pending[handles[h].endpoint] > 0
                   /\ evt_ret' = Some(pending[handles[h].endpoint])
                   /\ \A g \in SameEndpoint(h) : counters'[handles[g].fd] = 0
             /\ \A v \in EvtValues : EvtWrite(h, v) =>
                   \A g \in SameEndpoint(h) :
                       counters'[handles[g].fd] = counters[handles[g].fd] + v]_vars

\* 1 and 2 were written to an endpoint with a duplicate and a read returned 3
C15_Witness ==
    /\ evt_ret = Some(3)
    /\ \E h, g \in LiveHandles :
          /\ h # g
          /\ handles[h].fd = handles[g].fd
          /\ handles[g].kind = "EventFd"
          /\ counters[handles[h].fd] = 0

\* the object h is a ScopedEvent that has not been dropped or converted
IsScoped(hs, h) == hs[h].live /\ hs[h].kind = "ScopedEvent"

\* C16 as stated: whenever a ScopedEvent ceases to exist, that step adds
\* exactly 1 to its counter
C16_SignalOnAnyExit ==
    [][\A h \in DOMAIN handles :
          (IsScoped(handles, h) /\ ~IsScoped(handles', h)) =>
              counters'[handles[h].fd] = counters[handles[h].fd] + 1]_vars

\* C16: a ScopedEvent that is dropped adds exactly 1 to its counter in that
\* step, so that a duplicate reads 1 if the counter was 0; a ScopedEvent
\* that is converted into an EventFd ceases to exist with no counter changed
C16_SignalOnDrop ==
    /\ [][\A h \in DOMAIN handles :
             /\ ScopedDrop(h) =>
                   /\ counters' = [counters EXCEPT ![handles[h].fd] = @ + 1]
                   /\ counters[handles[h].fd] = 0 =>
                         \A g \in SameEndpoint(h) : EventFd_read(Evt', g).buf = 1
             /\ ScopedInto(h) => counters' = counters]_vars
    /\ [][\A h \in DOMAIN handles :
             (IsScoped(handles, h) /\ ~IsScoped(handles', h)) =>
                 ScopedDrop(h) \/ ScopedInto(h)]_vars

\* a ScopedEvent was dropped and its duplicate then read 1
C16_Witness ==
    /\ evt_ret = Some(1)
    /\ \E h, g \in DOMAIN handles :
          /\ ~handles[h].live
          /\ handles[h].kind = "ScopedEvent"
          /\ handles[g].live
          /\ handles[g].fd = handles[h].fd
          /\ counters[handles[g].fd] = 0

\* C17: no read or write of the transport, at any offset and width, changes
\* the counter of a queue endpoint or of the interrupt endpoint
C17_NoEndpointTouched ==
    /\ [](\A offset \in WindowOffsets \cup ConfigOffsets \cup {4096} :
            \A data \in NarrowData \cup {WriteU32(v) : v \in {0, 1, 15}} :
                /\ write(Self, offset, data).counters = counters
                /\ read_access(Self, offset, data).self.counters = counters)
    /\ [][(NotifyWrite \/ NotifyRead) => counters' = counters]_vars

\* a register was read on an activated transport while notifications were
\* pending on the queue endpoint and on the interrupt endpoint
C17_Witness ==
    /\ device_activated
    /\ counters[1] = 2
    /\ counters[2] = 1
    /\ rdata = WriteU32(15)

\* the three ring addresses of a queue descriptor
Rings(q) == {q.desc_table, q.avail_ring, q.used_ring}

\* the ring addresses of q of which only the low register has been written,
\* in a run where no high register is written: those with a non-zero low half
LowHalfOnly(q) == { a \in Rings(q) : a.lo # 0 /\ a.hi = 0 }

\* C18 as stated, for a driver that writes no high register (SpecWidth): a
\* queue with a ring address of which only the low half has landed is not
\* valid, and the device is not activated
C18_PartialAddressInvalid ==
    \A i \in 1..Len(queues) :
        LowHalfOnly(queues[i]) # {} =>
            /\ ~QueueIsValid(queues[i], GuestMemory(GuestMemSize))
            /\ ~device_activated

\* C18: a queue with a ring address still zero is not valid and a status
\* write of 0x0F does not activate the device, so the queues given to the
\* backend have no zero ring address; a ring address with only its low
\* half written is not held back, and a high-register write of b onto a zero
\* low half gives b * 2^32, outside this guest memory, so not valid either
C18_ZeroAddressInvalid ==
    /\ \A i \in 1..Len(queues) :
          NullAddress \in Rings(queues[i]) =>
              /\ ~are_queues_valid(Self)
              /\ ~write(Self, 112, WriteU32(15)).device_activated
                     \/ device_activated
    /\ device.activated_with # None =>
          \A i \in 1..Len(Activation.queues) :
              NullAddress \notin Rings(Activation.queues[i])
    /\ (queue_select = 0 /\ queues[1].desc_table = NullAddress) =>
          ~are_queues_valid(write(Self, 132, WriteU32(1)))

\* the device was activated with ring addresses whose high registers were
\* never written
C18_Witness ==
    /\ device_activated
    /\ LowHalfOnly(Activation.queues[1]) = Rings(Activation.queues[1])
    /\ Activation.queues[1].desc_table = GuestAddress(0, 4096)

\* each ring of a queue with its low and its high register
RingRegisters ==
    { [f |-> "desc_table", lo_reg |-> 128, hi_reg |-> 132],
      [f |-> "avail_ring", lo_reg |-> 144, hi_reg |-> 148],
      [f |-> "used_ring",  lo_reg |-> 160, hi_reg |-> 164] }

\* the queues with the ring f of the selected queue set to the halves h, l
WithRing(f, h, l) ==
    [queues EXCEPT ![queue_select + 1][f] = [hi |-> h, lo |-> l]]

\* C19: a low-register write replaces the low half of its ring address and
\* keeps the high half, a high-register write the reverse, and low = a,
\* high = b written in either order give the address with halves (b, a);
\* no other ring address of any queue changes
C19_IndependentHalves ==
    \A r \in RingRegisters : \A a \in AddrLows \cup {0, 8192} : \A b \in AddrHighs \cup {0, 2} :
        LET old   == queues[queue_select + 1][r.f]
            viaLo == write(Self, r.lo_reg, WriteU32(a))
            viaHi == write(Self, r.hi_reg, WriteU32(b))
        IN  /\ viaLo.queues = WithRing(r.f, old.hi, a)
            /\ viaHi.queues = WithRing(r.f, b, old.lo)
            /\ write(viaLo, r.hi_reg, WriteU32(b)).queues = WithRing(r.f, b, a)
            /\ write(viaHi, r.lo_reg, WriteU32(a)).queues = WithRing(r.f, b, a)

\* both orders have been taken: in queue 0 the low half of desc_table was
\* written onto a high half, in queue 1 the high half of used_ring stands
\* alone, and the rings beside them still differ
C19_Witness ==
    /\ queues[1].desc_table = GuestAddress(1, 4096)
    /\ queues[1].avail_ring = GuestAddress(0, 4096)
    /\ queues[1].used_ring = NullAddress
    /\ queues[2].used_ring = GuestAddress(1, 0)
    /\ queues[2].desc_table = NullAddress

\* the current struct with the selected queue's size set to x
WithSize(x) == [Self EXCEPT !.queues[queue_select + 1].size = x]

WithConfigReadsOf(s, t) ==
    [s EXCEPT !.device.config_read = t.device.config_read,
              !.device.config_calls = t.device.config_calls]

\* C21: a read at any offset and width leaves every field of the transport
\* as it was (the selectors, driver_status, the interrupt-status word, the
\* queues, the endpoints and their counters, mem, device_activated); of the
\* backend only its record of read_config calls changes, so no read
\* activates it
C21_ReadChangesNothing ==
    /\ [](\A offset \in WindowOffsets \cup ConfigOffsets \cup {4096} :
            \A data \in NarrowData \cup {<<0, 0, 0, 0>>} :
                LET after == read_access(Self, offset, data).self IN
                /\ after = WithConfigReadsOf(Self, after)
                /\ load(after.atomics, after.interrupt_status) =
                       load(atomics, interrupt_status))
    /\ [][(RegisterRead \/ OtherRead) =>
            /\ UNCHANGED <<device_activated, features_select, acked_features_select,
                           queue_select, interrupt_status, interrupt_evt,
                           driver_status, config_generation, queues, queue_evts,
                           mem, atomics, counters>>
            /\ device'.activate_calls = device.activate_calls
            /\ device'.activated_with = device.activated_with]_vars

\* after activation the worker raised bits 0 and 1, and a read of 0x060
\* returned 3 with the interrupt status still 3
C21_Witness ==
    /\ device_activated
    /\ load(atomics, interrupt_status) = 3
    /\ rdata = WriteU32(3)
    /\ queue_select = 1

\* C22: with no queue declared the queues are valid from construction on,
\* so the device is activated by the first write that leaves driver_status
\* at 0x0F, with empty queues and queue_evts, and no state has status 0x0F
\* without the device activated
C22_NoQueueActivatesOnStatus ==
    /\ [](Len(queues) = 0)
    /\ [](~device_activated =>
            /\ are_queues_valid(Self)
            /\ write(Self, 112, WriteU32(15)).device_activated
            /\ write(Self, 112, WriteU32(15)).device.activate_calls = 1)
    /\ [](driver_status = 15 => device_activated)
    /\ [][(~device_activated /\ driver_status' = 15) =>
            /\ device_activated'
            /\ device'.activate_calls = 1
            /\ device'.activated_with[1].queues = << >>
            /\ device'.activated_with[1].queue_evts = << >>]_vars

\* the status was read back as 0x0B, not yet ready, and the write of 0x0F
\* then activated the backend with no queue and no queue endpoint
C22_Witness ==
    /\ device_activated
    /\ driver_status = 15
    /\ device.activate_calls = 1
    /\ Activation.queues = << >>
    /\ Activation.queue_evts = << >>
    /\ rdata = WriteU32(11)

====
